---- MODULE Spec2Model ----
(***************************************************************************)
(* A model of fetch_todos.py: one run of main (fetch -> process -> save -> *)
(* preview), with the network, the remote service and the file system as   *)
(* the environment.  An optional value (an unbound local, an absent file)  *)
(* is the empty tuple << >>, a present one the one-element tuple <<v>>.     *)
(***************************************************************************)
EXTENDS Integers, Sequences, FiniteSets, TLC

\* ------------------------------------------------------------------ bounds

\* Longest record array the remote service returns in the model.
MaxRecords == 3

\* Largest n handed to preview when it is checked as a function of (df, n).
MaxN == 4

\* ------------------------------------------------------- program constants

\* preview's default n.
DefaultN == 5

\* The status every error handler of fetch_todos hands to sys.exit.
ErrorExitStatus == 1

\* The status of a run that ends by an uncaught exception (the interpreter's).
TracebackExitStatus == 1

\* The two labels of the status column (the source appends an emoji to each).
DoneLabel == "Done"
PendingLabel == "Pending"

\* pandas' missing value, what Series.map gives for a key the dict lacks.
NaN == "NaN"

\* ------------------------------------------------------------ input domain

Ids == {1, 2}
UserIds == {7}
\* Titles are plain text: no comma, quote or line break for to_csv to escape.
Titles == {"A", "B"}

\* A RawRecord as the service sends it: keys in the order userId, id, title, completed.
RawRecords == [userId : UserIds, id : Ids, title : Titles, completed : BOOLEAN]

RawKeys == <<"userId", "id", "title", "completed">>

SeqsUpTo(S, n) == UNION {[1..k -> S] : k \in 0..n}

RecordArrays == SeqsUpTo(RawRecords, MaxRecords)

\* HTTP statuses that can reach the caller: one per class, and both ends of 4xx/5xx.
Statuses == {101, 200, 304, 400, 404, 500, 599}

\* What requests.get itself can raise.
GetExceptions == {"ConnectionError", "ConnectTimeout", "ReadTimeout", "TooManyRedirects"}

\* What response.json() raises on a body that is not JSON: a RequestException
\* subclass in recent releases of requests, a plain ValueError in older ones.
JsonExceptions == {"JSONDecodeError", "ValueError"}

\* The outcome of the one HTTP exchange: an exception of requests.get, or a
\* response with a status and a body (<<arr>>: a JSON array, << >>: not JSON).
Outcomes ==
    [kind : {"exc"}, exc : GetExceptions, status : {0}, body : {<< >>}, jsonExc : {"none"}]
    \cup [kind : {"resp"}, exc : {"none"}, status : Statuses,
          body : {<<a>> : a \in RecordArrays}, jsonExc : {"none"}]
    \cup [kind : {"resp"}, exc : {"none"}, status : Statuses,
          body : {<< >>}, jsonExc : JsonExceptions]

\* The output file before the run: absent, or holding an earlier run's text.
StaleLines == << <<"stale">> >>
InitialFiles == {<< >>, <<StaleLines>>}

VARIABLES
    pc,         \* the step main is about to run, or "finish" / "exited"
    outcome,    \* << >> before the GET, <<o>> after: what the exchange gave
    getCount,   \* HTTP GETs issued
    raw_data,   \* main's raw_data: << >> unbound, <<records>> bound
    df,         \* main's df: << >> unbound, <<table>> bound
    summary,    \* << >>, or <<[total, completed, pending]>> once computed
    n,          \* preview's parameter n
    file,       \* the output file: << >> absent, <<lines>> present
    file0,      \* the output file as it was when the run began
    writable,   \* whether the output path can be opened for writing
    stdout,     \* the lines printed, each [tag, arg]
    exitCode,   \* -1 while running, then the process exit status
    uncaught,   \* the exception that ended the run by a traceback, or "none"
    started,    \* the steps entered, in order
    completed   \* the steps that returned normally, in order

vars == <<pc, outcome, getCount, raw_data, df, summary, n, file, file0, writable,
          stdout, exitCode, uncaught, started, completed>>

Msg(tag, arg) == [tag |-> tag, arg |-> arg]

\* ------------------------------------------------------------ fetch_todos

\* The classes an exception is an instance of (requests.exceptions; KeyError,
\* ValueError and OSError are builtins outside that hierarchy).
Mro(exc) ==
    CASE exc = "ConnectionError"  -> {"ConnectionError", "RequestException"}
      [] exc = "ConnectTimeout"   -> {"ConnectTimeout", "ConnectionError", "Timeout",
                                      "RequestException"}
      [] exc = "ReadTimeout"      -> {"ReadTimeout", "Timeout", "RequestException"}
      [] exc = "HTTPError"        -> {"HTTPError", "RequestException"}
      [] exc = "TooManyRedirects" -> {"TooManyRedirects", "RequestException"}
      [] exc = "JSONDecodeError"  -> {"JSONDecodeError", "InvalidJSONError",
                                      "RequestException"}
      [] OTHER                    -> {exc}

\* The except clauses of fetch_todos, in the order they are written.
Handlers == <<"ConnectionError", "Timeout", "HTTPError", "RequestException">>

\* The except clause that catches exc: the first whose class exc is an instance
\* of; "none" when no clause matches and the exception propagates.
Dispatch(exc) ==
    LET hits == {i \in 1..Len(Handlers) : Handlers[i] \in Mro(exc)}
    IN  IF hits = {} THEN "none"
        ELSE Handlers[CHOOSE i \in hits : \A j \in hits : i <= j]

\* raise_for_status with the 5xx range forgotten.
RaisesForStatusOnly4xx(status) == 400 <= status /\ status < 500

\* response.raise_for_status(): raises HTTPError for a 4xx or 5xx status.
RaisesForStatus(status) == 400 <= status /\ status < 600

\* The try body: the GET, raise_for_status, response.json(), the success line.
TryBody(o) ==
    IF o.kind = "exc"
    THEN [kind |-> "raise", exc |-> o.exc, data |-> << >>, out |-> << >>]
    ELSE IF RaisesForStatus(o.status)
    THEN [kind |-> "raise", exc |-> "HTTPError", data |-> << >>, out |-> << >>]
    ELSE IF o.body = << >>
    THEN [kind |-> "raise", exc |-> o.jsonExc, data |-> << >>, out |-> << >>]
    ELSE [kind |-> "return", exc |-> "none", data |-> o.body,
          out |-> <<Msg("success", Len(o.body[1]))>>]

\* The except clauses with the Timeout clause calling sys.exit(0).
HandleErrorExitZero(h, exc, status) ==
    [kind |-> "exit", code |-> IF h = "Timeout" THEN 0 ELSE ErrorExitStatus,
     exc |-> "none", data |-> << >>, out |-> <<Msg("error", h)>>]

\* The except clauses with the ConnectionError clause returning a built-in
\* sample record instead of ending the process.
HandleErrorFallback(h, exc, status) ==
    IF h = "ConnectionError"
    THEN [kind |-> "return", code |-> 0, exc |-> "none",
          data |-> << <<[userId |-> 7, id |-> 1, title |-> "A", completed |-> FALSE]>> >>,
          out |-> <<Msg("connect_error", 0)>>]
    ELSE [kind |-> "exit", code |-> ErrorExitStatus, exc |-> "none", data |-> << >>,
          out |-> <<Msg("error", h)>>]

\* The body of except clause h, entered with exception exc (status: the status
\* of the response, read by the HTTPError clause alone).
HandleError(h, exc, status) ==
    [kind |-> "exit", code |-> ErrorExitStatus, exc |-> "none", data |-> << >>,
     out |-> CASE h = "ConnectionError" -> <<Msg("connect_error", 0)>>
               [] h = "Timeout"         -> <<Msg("timeout_error", 0)>>
               [] h = "HTTPError"       -> <<Msg("http_error", exc),
                                             Msg("status_code", status)>>
               [] OTHER                 -> <<Msg("unexpected_error", exc)>>]

Banner(url_params) == <<Msg("fetching", url_params)>>

\* fetch_todos as a function of what the HTTP exchange gives: it returns the
\* records, exits the process from an except clause, or lets an exception out.
fetch_todos(o) ==
    LET t == TryBody(o)
    IN  IF t.kind = "return"
        THEN [kind |-> "return", code |-> 0, exc |-> "none", data |-> t.data,
              out |-> Banner("todos") \o t.out]
        ELSE IF Dispatch(t.exc) = "none"
        THEN [kind |-> "raise", code |-> TracebackExitStatus, exc |-> t.exc,
              data |-> << >>, out |-> Banner("todos")]
        ELSE LET r == HandleError(Dispatch(t.exc), t.exc, o.status)
             IN  [r EXCEPT !.out = Banner("todos") \o r.out]

\* ----------------------------------------------------------- process_data

\* A table (DataFrame): its column names in order, and its rows in order, each
\* row a function from the column names to values.
Table(columns, rows) == [columns |-> columns, rows |-> rows]

Range(f) == {f[i] : i \in DOMAIN f}

\* pd.DataFrame(data) of a list of dicts: the columns are the keys in the order
\* they first appear, so the empty list gives a table with no columns at all.
DataFrame(data) ==
    Table(IF data = << >> THEN << >> ELSE RawKeys, data)

\* The rename mapping with the two identifier columns crossed.
RenameMapCrossed ==
    ("userId" :> "todo_id") @@ ("id" :> "user_id") @@ ("title" :> "task")
    @@ ("completed" :> "is_completed")

\* The columns= mapping of df.rename.
RenameMap ==
    ("userId" :> "user_id") @@ ("id" :> "todo_id") @@ ("title" :> "task")
    @@ ("completed" :> "is_completed")

NewName(c) == IF c \in DOMAIN RenameMap THEN RenameMap[c] ELSE c

\* df.rename(columns=RenameMap, inplace=True): every column the mapping names
\* is renamed, a name the table lacks is ignored; rows and their order stay.
Rename(t) ==
    LET cols == [i \in 1..Len(t.columns) |-> NewName(t.columns[i])]
        old(c2) == CHOOSE c \in Range(t.columns) : NewName(c) = c2
    IN  Table(cols,
              [i \in 1..Len(t.rows) |-> [c2 \in Range(cols) |-> t.rows[i][old(c2)]]])

\* The status dict with the False key missing.
StatusMapNoFalse(v) == IF v = TRUE THEN DoneLabel ELSE NaN

\* The dict handed to Series.map: a value the dict lacks maps to NaN.
StatusMap(v) ==
    IF v = TRUE THEN DoneLabel ELSE IF v = FALSE THEN PendingLabel ELSE NaN

\* df["status"] = df["is_completed"].map(...): a new last column.
AddStatus(t) ==
    Table(Append(t.columns, "status"),
          [i \in 1..Len(t.rows) |->
              [c \in Range(t.columns) \cup {"status"} |->
                  IF c = "status" THEN StatusMap(t.rows[i]["is_completed"])
                  ELSE t.rows[i][c]]])

\* The column list of the reorder.
FixedColumns == <<"todo_id", "user_id", "task", "is_completed", "status">>

\* df[FixedColumns]: the projection on the listed columns, in the listed order.
Project(t, columns) ==
    Table(columns,
          [i \in 1..Len(t.rows) |-> [c \in Range(columns) |-> t.rows[i][c]]])

\* df["is_completed"].sum(): the number of rows whose is_completed is true.
RECURSIVE SumTrue(_)
SumTrue(rows) ==
    IF rows = << >> THEN 0
    ELSE (IF Head(rows)["is_completed"] = TRUE THEN 1 ELSE 0) + SumTrue(Tail(rows))

Pending(total, done) == total - done

\* process_data: the table and the summary counters, or the KeyError that
\* df["is_completed"] raises on a table without that column.
process_data(data) ==
    LET renamed == Rename(DataFrame(data))
    IN  IF "is_completed" \notin Range(renamed.columns)
        THEN [kind |-> "raise", exc |-> "KeyError", df |-> << >>, summary |-> << >>,
              out |-> <<Msg("processing", 0)>>]
        ELSE LET t     == Project(AddStatus(renamed), FixedColumns)
                 total == Len(t.rows)
                 done  == SumTrue(t.rows)
                 pend  == Pending(total, done)
             IN  [kind |-> "return", exc |-> "none", df |-> <<t>>,
                  summary |-> <<[total |-> total, completed |-> done, pending |-> pend]>>,
                  out |-> <<Msg("processing", 0), Msg("total", total),
                            Msg("completed", done), Msg("pending", pend)>>]

\* ------------------------------------------------------------ save_to_csv

\* The dtype pandas infers for a column of the table: int64 for the two
\* identifiers, bool for the flag, object (text) for the rest.
Dtype(c) ==
    IF c \in {"id", "userId", "todo_id", "user_id"} THEN "int64"
    ELSE IF c \in {"completed", "is_completed"} THEN "bool"
    ELSE "object"

\* to_csv's text of one value of column c: an integer in decimal, a boolean as
\* True / False, text as it is.
CsvField(c, v) ==
    CASE Dtype(c) = "int64" -> ToString(v)
      [] Dtype(c) = "bool"  -> IF v THEN "True" ELSE "False"
      [] OTHER              -> v

\* df.to_csv(filename, index=False): the header line, then one line per row in
\* table order, each line the sequence of its comma-separated fields.
ToCsv(t) ==
    <<t.columns>>
    \o [i \in 1..Len(t.rows) |->
           [k \in 1..Len(t.columns) |->
               CsvField(t.columns[k], t.rows[i][t.columns[k]])]]

\* save_to_csv: the file's new content and the lines printed, or the OSError
\* of a path that cannot be opened for writing (the file is then untouched).
save_to_csv(t, old, canWrite) ==
    IF ~canWrite
    THEN [kind |-> "raise", exc |-> "OSError", file |-> old, out |-> << >>]
    ELSE [kind |-> "return", exc |-> "none", file |-> <<ToCsv(t)>>,
          out |-> <<Msg("saved", 0), Msg("rows", Len(t.rows)),
                    Msg("columns", t.columns)>>]

\* ---------------------------------------------------------------- preview

Min(a, b) == IF a <= b THEN a ELSE b
Max(a, b) == IF a >= b THEN a ELSE b

\* head with the slice one row short.
DfHeadShort(t, k) ==
    Table(t.columns, [i \in 1..Min(Max(k - 1, 0), Len(t.rows)) |-> t.rows[i]])

\* df.head(k), which is df.iloc[:k]: a slice whose stop counts from the end
\* when k is negative and is clamped to the table's length.
DfHead(t, k) ==
    LET len  == Len(t.rows)
        stop == IF k < 0 THEN Max(len + k, 0) ELSE Min(k, len)
    IN  Table(t.columns, [i \in 1..stop |-> t.rows[i]])

\* preview: the lines printed (the rendered block holds the rows of df.head(k)).
preview(t, k) ==
    <<Msg("preview_title", k), Msg("preview_rows", DfHead(t, k).rows),
      Msg("rule", 0)>>

\* ------------------------------------------------------------------- main

\* The steps of main, in the order main calls them.
StepOrder == <<"fetch", "process", "save", "preview">>

\* main with the save step's failure swallowed: it goes on to the preview.
NextPcSwallow(step, ok) ==
    IF ~ok /\ step # "save" THEN "exited"
    ELSE CASE step = "fetch"   -> "process"
           [] step = "process" -> "save"
           [] step = "save"    -> "preview"
           [] OTHER            -> "finish"

\* Where main stands after a step: at the next call when the step returned,
\* out of the process when it exited or raised (main catches nothing).
NextPc(step, ok) ==
    IF ~ok THEN "exited"
    ELSE CASE step = "fetch"   -> "process"
           [] step = "process" -> "save"
           [] step = "save"    -> "preview"
           [] OTHER            -> "finish"

Init ==
    /\ pc = "fetch"
    /\ outcome = << >>
    /\ getCount = 0
    /\ raw_data = << >>
    /\ df = << >>
    /\ summary = << >>
    /\ n = DefaultN
    /\ file \in InitialFiles
    /\ file0 = file
    /\ writable \in BOOLEAN
    /\ stdout = << >>
    /\ exitCode = -1
    /\ uncaught = "none"
    /\ started = << >>
    /\ completed = << >>

\* Step 1: raw_data = fetch_todos(API_URL, PARAMS), after main's title lines.
FetchTodos ==
    /\ pc = "fetch"
    /\ \E o \in Outcomes :
          LET r == fetch_todos(o)
              ok == r.kind = "return"
          IN  /\ outcome' = <<o>>
              /\ getCount' = getCount + 1
              /\ stdout' = stdout \o <<Msg("title", 0)>> \o r.out
              /\ started' = Append(started, "fetch")
              /\ completed' = IF ok THEN Append(completed, "fetch") ELSE completed
              /\ raw_data' = IF ok THEN r.data ELSE raw_data
              /\ exitCode' = IF ok THEN exitCode ELSE r.code
              /\ uncaught' = IF r.kind = "raise" THEN r.exc ELSE uncaught
              /\ pc' = NextPc("fetch", ok)
    /\ UNCHANGED <<df, summary, n, file, file0, writable>>

\* Step 2: df = process_data(raw_data).
ProcessData ==
    /\ pc = "process"
    /\ LET r == process_data(raw_data[1])
           ok == r.kind = "return"
       IN  /\ stdout' = stdout \o r.out
           /\ started' = Append(started, "process")
           /\ completed' = IF ok THEN Append(completed, "process") ELSE completed
           /\ df' = IF ok THEN r.df ELSE df
           /\ summary' = IF ok THEN r.summary ELSE summary
           /\ exitCode' = IF ok THEN exitCode ELSE TracebackExitStatus
           /\ uncaught' = IF ok THEN uncaught ELSE r.exc
           /\ pc' = NextPc("process", ok)
    /\ UNCHANGED <<outcome, getCount, raw_data, n, file, file0, writable>>

\* Step 3: save_to_csv(df, OUTPUT).
SaveToCsv ==
    /\ pc = "save"
    /\ LET r == save_to_csv(df[1], file, writable)
           ok == r.kind = "return"
       IN  /\ file' = r.file
           /\ stdout' = stdout \o r.out
           /\ started' = Append(started, "save")
           /\ completed' = IF ok THEN Append(completed, "save") ELSE completed
           /\ exitCode' = IF ok THEN exitCode ELSE TracebackExitStatus
           /\ uncaught' = IF ok THEN uncaught ELSE r.exc
           /\ pc' = NextPc("save", ok)
    /\ UNCHANGED <<outcome, getCount, raw_data, df, summary, n, file0, writable>>

\* Step 4: preview(df), n taking its default.
Preview ==
    /\ pc = "preview"
    /\ stdout' = stdout \o preview(df[1], n)
    /\ started' = Append(started, "preview")
    /\ completed' = Append(completed, "preview")
    /\ pc' = NextPc("preview", TRUE)
    /\ UNCHANGED <<outcome, getCount, raw_data, df, summary, n, file, file0,
                   writable, exitCode, uncaught>>

\* main prints its closing lines and returns: the interpreter exits with 0.
MainReturn ==
    /\ pc = "finish"
    /\ stdout' = Append(stdout, Msg("done", 0))
    /\ exitCode' = 0
    /\ pc' = "exited"
    /\ UNCHANGED <<outcome, getCount, raw_data, df, summary, n, file, file0,
                   writable, uncaught, started, completed>>

Next == FetchTodos \/ ProcessData \/ SaveToCsv \/ Preview \/ MainReturn

Spec == Init /\ [][Next]_vars

\* ------------------------------------------ preview as a function of (df, n)

\* The tables preview can be handed: every table process_data returns, and the
\* zero-row table with the five fixed columns.
Tables ==
    {Table(FixedColumns, << >>)}
    \cup {process_data(a).df[1] : a \in RecordArrays \ {<< >>}}

\* A call preview(df, n) about to run, for every table and every row count n.
InitPreview ==
    /\ pc = "preview"
    /\ outcome = << >>
    /\ getCount = 0
    /\ raw_data = << >>
    /\ df \in {<<t>> : t \in Tables}
    /\ summary = << >>
    /\ n \in 0..MaxN
    /\ file = << >>
    /\ file0 = file
    /\ writable = TRUE
    /\ stdout = << >>
    /\ exitCode = -1
    /\ uncaught = "none"
    /\ started = << >>
    /\ completed = << >>

NextPreview == Preview

SpecPreview == InitPreview /\ [][NextPreview]_vars

\* ----------------------------------------------------------------- claims

IsPrefix(a, b) == Len(a) <= Len(b) /\ \A i \in 1..Len(a) : a[i] = b[i]

Tags == {stdout[i].tag : i \in 1..Len(stdout)}

Printed(tag, arg) ==
    \E i \in 1..Len(stdout) : stdout[i].tag = tag /\ stdout[i].arg = arg

\* The failure kind of the taxonomy an exchange falls under, from what the
\* network and the service did: "none" for a response the taxonomy lets pass.
FailureKind(o) ==
    CASE o.kind = "exc" /\ o.exc = "ConnectionError"               -> "connection"
      [] o.kind = "exc" /\ o.exc \in {"ConnectTimeout", "ReadTimeout"} -> "timeout"
      [] o.kind = "exc"                                            -> "other"
      [] o.kind = "resp" /\ o.status \in 400..599                  -> "http"
      [] OTHER                                                     -> "none"

FetchFailed == outcome # << >> /\ FailureKind(outcome[1]) # "none"

Responded == outcome # << >> /\ outcome[1].kind = "resp"

\* The service answered with a 2xx status and a JSON array.
FetchedOk ==
    Responded /\ outcome[1].status \in 200..299 /\ outcome[1].body # << >>

\* C1: when the run has ended, its exit code is 0 exactly when all four steps
\* completed, and it is non-zero whenever the fetch failed by a connection
\* failure, a timeout, an HTTP error status or another request error.
C1_ExitCode ==
    pc = "exited" =>
        /\ exitCode \in Nat
        /\ (exitCode = 0 <=> completed = StepOrder)
        /\ (FetchFailed => exitCode # 0)

\* A run that ended with exit code 0 after all four steps.
C1_Witness ==
    /\ pc = "exited" /\ exitCode = 0 /\ completed = StepOrder
    /\ Len(raw_data[1]) = MaxRecords

\* C2: when the fetch fails, in any of its kinds, the run ends without
\* save_to_csv ever being entered and the output file is as it was before.
C2_FileUntouched ==
    FetchFailed =>
        /\ pc = "exited"
        /\ "save" \notin Range(started)
        /\ file = file0

\* A run ended by a connection failure with an earlier output file in place.
C2_Witness ==
    /\ FetchFailed /\ FailureKind(outcome[1]) = "connection"
    /\ pc = "exited" /\ file0 = <<StaleLines>> /\ writable

\* What fetch_todos does on an error status: the status code is printed, the
\* process has ended with a non-zero status, and no records were returned.
ReportsStatusAndExits ==
    /\ Printed("status_code", outcome[1].status)
    /\ pc = "exited" /\ exitCode > 0
    /\ raw_data = << >>

\* C3 as stated: every response whose status is outside 2xx is reported with
\* its status code and ends the process non-zero, returning no records.
C3_Non2xx ==
    (Responded /\ outcome[1].status \notin 200..299) => ReportsStatusAndExits

\* C3: every response whose status is in 4xx or 5xx is reported with its status
\* code and ends the process non-zero, returning no records.
C3_ErrorStatus ==
    (Responded /\ outcome[1].status \in 400..599) => ReportsStatusAndExits

\* An HTTP 500 response, handled.
C3_Witness ==
    /\ Responded /\ outcome[1].status = 500 /\ outcome[1].body # << >>
    /\ Printed("status_code", 500) /\ pc = "exited"

\* The line each failure kind of the taxonomy is reported by.
ReportTag(kind) ==
    CASE kind = "connection" -> "connect_error"
      [] kind = "timeout"    -> "timeout_error"
      [] kind = "http"       -> "http_error"
      [] OTHER               -> "unexpected_error"

ErrorTags == {"connect_error", "timeout_error", "http_error", "unexpected_error"}

\* C4: a request that exceeds the time bound, in the connect phase or the read
\* phase, is reported as a timeout and as nothing else, and ends the process
\* non-zero; each failure kind is reported by its own handler.
C4_OwnHandler ==
    FetchFailed =>
        /\ Tags \cap ErrorTags = {ReportTag(FailureKind(outcome[1]))}
        /\ pc = "exited" /\ exitCode > 0

\* C5: on the empty record array process_data raises nothing and returns the
\* zero-row table with the five fixed columns and the counters 0, 0, 0, and
\* the run then writes an output file holding the header line alone.
C5_EmptyInput ==
    (FetchedOk /\ raw_data = << << >> >> /\ "process" \in Range(started)) =>
        /\ uncaught # "KeyError"
        /\ df = <<Table(FixedColumns, << >>)>>
        /\ summary = <<[total |-> 0, completed |-> 0, pending |-> 0]>>
        /\ (pc = "exited" /\ writable => file = << <<FixedColumns>> >>)

\* The number of records of the array whose completed is true.
RECURSIVE CountCompleted(_)
CountCompleted(recs) ==
    IF recs = << >> THEN 0
    ELSE (IF Head(recs).completed THEN 1 ELSE 0) + CountCompleted(Tail(recs))

\* C6: for every record array handed to process_data, the empty one included,
\* the counters are computed and satisfy completed + pending = total, total
\* being the row count and completed the number of completed rows.
C6_Counters ==
    (FetchedOk /\ "process" \in Range(started)) =>
        /\ summary # << >>
        /\ summary[1].completed + summary[1].pending = summary[1].total
        /\ summary[1].total = Len(raw_data[1])
        /\ summary[1].completed = CountCompleted(raw_data[1])

\* The line of the output file for one input record.
ExpectedLine(rec) ==
    <<ToString(rec.id), ToString(rec.userId), rec.title,
      IF rec.completed THEN "True" ELSE "False",
      IF rec.completed THEN DoneLabel ELSE PendingLabel>>

\* C7: the table process_data returns has one row per input record, in input
\* order, row i holding record i's id, userId, title and completed; and the
\* file save_to_csv writes has, after the header, one line per record in the
\* same order.
C7_RowsPreserved ==
    /\ df # << >> =>
          /\ Len(df[1].rows) = Len(raw_data[1])
          /\ \A i \in 1..Len(raw_data[1]) :
                /\ df[1].rows[i]["todo_id"] = raw_data[1][i].id
                /\ df[1].rows[i]["user_id"] = raw_data[1][i].userId
                /\ df[1].rows[i]["task"] = raw_data[1][i].title
                /\ df[1].rows[i]["is_completed"] = raw_data[1][i].completed
    /\ "save" \in Range(completed) =>
          /\ file # << >>
          /\ Len(file[1]) = Len(raw_data[1]) + 1
          /\ file[1][1] = FixedColumns
          /\ \A i \in 1..Len(raw_data[1]) : file[1][i + 1] = ExpectedLine(raw_data[1][i])

\* A saved file of MaxRecords lines whose first two records differ.
C7_Witness ==
    /\ "save" \in Range(completed)
    /\ Len(raw_data[1]) = MaxRecords
    /\ raw_data[1][1].id # raw_data[1][2].id
    /\ raw_data[1][1].title # raw_data[1][2].title

\* C8: in every row of the table process_data returns, status is the Done label
\* exactly when is_completed is true and the Pending label otherwise; no row
\* has a third or a missing status.
C8_Status ==
    df # << >> =>
        \A i \in 1..Len(df[1].rows) :
            LET row == df[1].rows[i]
            IN  /\ row["status"] \in {DoneLabel, PendingLabel}
                /\ (row["status"] = DoneLabel <=> row["is_completed"] = TRUE)
                /\ (row["status"] = PendingLabel <=> row["is_completed"] = FALSE)

\* A table with a completed row and a pending row.
C8_Witness ==
    /\ df # << >>
    /\ \E i, j \in 1..Len(df[1].rows) :
          df[1].rows[i]["is_completed"] /\ ~df[1].rows[j]["is_completed"]

\* The rows the last preview block printed in a sequence of output lines.
PreviewRows(out) ==
    out[CHOOSE i \in 1..Len(out) :
            /\ out[i].tag = "preview_rows"
            /\ \A j \in (i + 1)..Len(out) : out[j].tag # "preview_rows"].arg

\* C9: preview prints exactly the first min(n, row count) rows of the table, in
\* table order, and leaves the table as it was; with n above the row count or
\* an empty table it prints all (possibly zero) rows and raises nothing.
C9_Preview ==
    [][pc = "preview" =>
          /\ pc' = "finish" /\ uncaught' = "none"
          /\ df' = df
          /\ LET rows == df[1].rows
                 shown == PreviewRows(stdout')
             IN  /\ Len(shown) = Min(n, Len(rows))
                 /\ \A i \in 1..Len(shown) : shown[i] = rows[i]]_vars

\* A preview that cut the table: fewer rows asked for than the table has.
C9_Witness ==
    /\ pc = "finish"
    /\ 0 < n /\ n < Len(df[1].rows)
    /\ Len(PreviewRows(stdout)) = n

\* C10: the steps run at most once each and in the order fetch, process, save,
\* preview; one HTTP GET is issued and never repeated; a step is entered only
\* when every step before it has completed; and a step that fails ends the
\* run there, no later step being entered.
C10_Sequence ==
    /\ IsPrefix(started, StepOrder)
    /\ IsPrefix(completed, started)
    /\ Len(started) <= Len(completed) + 1
    /\ getCount = (IF started = << >> THEN 0 ELSE 1)
    /\ (pc = "exited" => getCount = 1)
    /\ (Len(started) > Len(completed) => pc = "exited" /\ exitCode > 0)
    /\ (pc \notin {"exited", "finish"} => pc = StepOrder[Len(completed) + 1])

\* A run that the save step's failure ended: the preview was never entered.
C10_Witness ==
    /\ pc = "exited"
    /\ started = <<"fetch", "process", "save">>
    /\ completed = <<"fetch", "process">>

====
